---- MODULE Spec2Model ----
(***************************************************************************)
(* Bank transaction analyzer: FeatureBuilder, RiskScorer and               *)
(* TransactionFlagger (src/Models) as a state machine, with the            *)
(* DataManager, the TransactionCleaner and the MainController that drives  *)
(* them (src/Controllers).                                                 *)
(*                                                                         *)
(* Tables (pandas DataFrames) are records                                  *)
(*     [isNone |-> BOOLEAN, cols |-> set of column names, rows |-> Seq]    *)
(* whose rows are functions from column name to value.  Every numeric cell *)
(* is a fixed-point number: the integer v stands for v / Scale.  A         *)
(* division of the code is one floor division in the model.                *)
(***************************************************************************)
EXTENDS Integers, Sequences, FiniteSets, TLC

VARIABLES
    cleaned,            \* the cleaned transaction table as it is when handed to build_features
    features,           \* FeatureBuilder.features: the very table object the caller passed
    risk_scores,        \* RiskScorer.risk_scores
    score_arg,          \* the table passed to the last compute_risk_scores call
    score_result,       \* what the last compute_risk_scores call returned
    flagged_data,       \* TransactionFlagger.flagged_data
    lookup,             \* the risk table passed to the last flag_transactions call
    flag_result,        \* what the last flag_transactions call returned
    summary,            \* TransactionFlagger._summary
    is_flagged_done,    \* TransactionFlagger._is_flagged
    z_score_threshold,  \* RiskScorer.z_score_threshold
    risk_threshold,     \* TransactionFlagger.risk_threshold
    previous_scores,    \* what get_risk_scores returned before the last repeated scoring
    state,              \* MainController.state
    raw_data,           \* DataManager.raw_data
    is_loaded,          \* DataManager.is_loaded
    cleaned_data,       \* TransactionCleaner.cleaned_data
    missing_value_count,    \* TransactionCleaner.missing_value_count
    duplicate_count,        \* TransactionCleaner.duplicate_count
    invalid_value_count,    \* TransactionCleaner.invalid_value_count
    last_call,          \* the last operation called, what it reported, what it invoked
    build_failed,       \* a build_features call failed and none has succeeded since
    loaded_ok           \* the dataset of the last load_dataset call that succeeded

pipelineVars == <<cleaned, features, risk_scores, score_arg, score_result,
                  flagged_data, lookup, flag_result, summary, is_flagged_done,
                  z_score_threshold, risk_threshold, previous_scores>>

cleanerVars == <<cleaned_data, missing_value_count, duplicate_count,
                 invalid_value_count>>

controllerVars == <<state, raw_data, is_loaded, last_call, build_failed, loaded_ok>>

vars == <<pipelineVars, cleanerVars, controllerVars>>

----------------------------------------------------------------------------
(* Bounds of the model *)

MaxRows == 3
Scale == 10
\* the longest run of transactions of one originator
MaxRun == 6

Fix(n) == n * Scale

Customers == {"C1", "C2", "C3"}
Steps == {1}
Amounts == {0, 1, 5}
OldBalances == {0, 4}

\* (z_score_threshold, risk_threshold) given to the constructors: the
\* defaults and one custom configuration
Configs == {[z |-> Fix(2), r |-> Fix(50)], [z |-> Fix(1) \div 2, r |-> Fix(25)]}

\* the order of originator ids under string comparison
Rank(c) == CASE c = "C1" -> 1 [] c = "C2" -> 2 [] c = "C3" -> 3

----------------------------------------------------------------------------
(* DataFrame helpers *)

NoTable == [isNone |-> TRUE, cols |-> {}, rows |-> <<>>]

Table(cs, rs) == [isNone |-> FALSE, cols |-> cs, rows |-> rs]

\* df[c] = vals : adds the column or overwrites it, on the table itself
WithColumn(t, c, vals) ==
    [t EXCEPT !.cols = @ \cup {c},
              !.rows = [i \in 1..Len(t.rows) |-> (c :> vals[i]) @@ t.rows[i]]]

\* df[cs] : the projection on the columns cs
Project(t, cs) ==
    Table(cs, [i \in 1..Len(t.rows) |-> [c \in cs |-> t.rows[i][c]]])

Column(rs, c) == [i \in 1..Len(rs) |-> rs[i][c]]

RECURSIVE SeqSum(_)
SeqSum(s) == IF s = <<>> THEN 0 ELSE Head(s) + SeqSum(Tail(s))

RECURSIVE SeqMax(_)
SeqMax(s) == IF Len(s) = 1 THEN s[1]
             ELSE LET m == SeqMax(Tail(s)) IN IF s[1] >= m THEN s[1] ELSE m

RECURSIVE SeqMin(_)
SeqMin(s) == IF Len(s) = 1 THEN s[1]
             ELSE LET m == SeqMin(Tail(s)) IN IF s[1] <= m THEN s[1] ELSE m

SeqMean(s) == SeqSum(s) \div Len(s)

Abs(x) == IF x < 0 THEN -x ELSE x

\* the dtype of a column as pandas sees it; a table read from a file whose
\* cells of a numeric column are not numbers names that column in its field text
BoolCols == {"is_full_drain", "is_flagged"}
ObjectCols == {"nameOrig", "risk_band", "type", "nameDest"}
TextCols(t) == IF "text" \in DOMAIN t THEN t.text ELSE {}
NumericCols(t) == t.cols \ (BoolCols \cup ObjectCols \cup TextCols(t))

----------------------------------------------------------------------------
(* FeatureBuilder *)

BalanceRatioOrig(r) ==
    IF r.oldbalanceOrg > 0 THEN (r.amount * Scale) \div r.oldbalanceOrg ELSE 0

IsFullDrain(r) == r.oldbalanceOrg > 0 /\ r.newbalanceOrig = 0

HourOfDay(r) == Fix((r.step \div Scale) % 24)

AddTransactionFeatures(t) ==
    LET n == Len(t.rows)
        t1 == WithColumn(t, "balance_ratio_orig",
                         [i \in 1..n |-> BalanceRatioOrig(t.rows[i])])
        t2 == WithColumn(t1, "is_full_drain",
                         [i \in 1..n |-> IsFullDrain(t.rows[i])])
    IN  WithColumn(t2, "hour_of_day", [i \in 1..n |-> HourOfDay(t.rows[i])])

\* the amounts of the rows of originator c, in row order
CustomerAmounts(rs, c) == Column(SelectSeq(rs, LAMBDA r : r.nameOrig = c), "amount")

TrnsCountCustomer(rs, r) == Fix(Len(CustomerAmounts(rs, r.nameOrig)))

AddCustomerFeatures(t) ==
    LET n == Len(t.rows)
        rs == t.rows
        t1 == WithColumn(t, "trns_count_customer",
                         [i \in 1..n |-> TrnsCountCustomer(rs, rs[i])])
        t2 == WithColumn(t1, "trns_total_customer",
                         [i \in 1..n |-> SeqSum(CustomerAmounts(rs, rs[i].nameOrig))])
        t3 == WithColumn(t2, "trns_avg_customer",
                         [i \in 1..n |-> SeqMean(CustomerAmounts(rs, rs[i].nameOrig))])
    IN  WithColumn(t3, "trns_max_customer",
                   [i \in 1..n |-> SeqMax(CustomerAmounts(rs, rs[i].nameOrig))])

Day(r) == Fix((r.step \div Scale) \div 24)

DailyTrnsVelocity(rs, r) ==
    Fix(Len(SelectSeq(rs, LAMBDA q : q.nameOrig = r.nameOrig /\ Day(q) = Day(r))))

AddVelocityFeatures(t) ==
    LET n == Len(t.rows)
        t1 == WithColumn(t, "day", [i \in 1..n |-> Day(t.rows[i])])
    IN  WithColumn(t1, "daily_trns_velocity",
                   [i \in 1..n |-> DailyTrnsVelocity(t.rows, t.rows[i])])

\* the order of sort_values(['nameOrig', 'step'])
RowBefore(a, b) ==
    \/ Rank(a.nameOrig) < Rank(b.nameOrig)
    \/ a.nameOrig = b.nameOrig /\ a.step < b.step

\* sort_values on two keys is a stable sort
RECURSIVE SortRows(_)
SortRows(rs) ==
    IF rs = <<>> THEN <<>>
    ELSE LET rest == SortRows(Tail(rs))
             h == Head(rs)
             k == Len(SelectSeq(rest, LAMBDA q : RowBefore(q, h)))
         IN  SubSeq(rest, 1, k) \o <<h>> \o SubSeq(rest, k + 1, Len(rest))

rolling_window == 5

\* a window that grows with the originator's run
RollingWindow_WholeRun(rs, i) == CustomerAmounts(SubSeq(rs, 1, i), rs[i].nameOrig)

\* the amounts of the trailing window that ends at row i of the sorted rows
RollingWindow(rs, i) ==
    LET own == CustomerAmounts(SubSeq(rs, 1, i), rs[i].nameOrig)
        first == IF Len(own) > rolling_window THEN Len(own) - rolling_window + 1 ELSE 1
    IN  SubSeq(own, first, Len(own))

AddRollingFeatures(t) ==
    LET rs == SortRows(t.rows)
        n == Len(rs)
        t0 == Table(t.cols, rs)
        t1 == WithColumn(t0, "rolling_mean_amount",
                         [i \in 1..n |-> SeqMean(RollingWindow(rs, i))])
    IN  WithColumn(t1, "rolling_max_amount",
                   [i \in 1..n |-> SeqMax(RollingWindow(rs, i))])

BuildFeaturesTable(t) ==
    AddRollingFeatures(AddVelocityFeatures(AddCustomerFeatures(AddTransactionFeatures(t))))

\* get_features returns the table FeatureBuilder holds, not a copy of it
GetFeatures(t) == t

----------------------------------------------------------------------------
(* RiskScorer *)

risk_bands ==
    << [band |-> "Low",      low |-> Fix(0),  high |-> Fix(25)],
       [band |-> "Medium",   low |-> Fix(25), high |-> Fix(50)],
       [band |-> "High",     low |-> Fix(50), high |-> Fix(75)],
       [band |-> "Critical", low |-> Fix(75), high |-> Fix(100)] >>

risk_features ==
    {"amount", "balance_ratio_orig", "is_full_drain", "trns_count_customer",
     "trns_total_customer", "trns_avg_customer", "trns_max_customer",
     "daily_trns_velocity", "rolling_mean_amount", "rolling_max_amount"}

\* the columns _aggregate_to_customer sums; every other numeric column is averaged
SumCols == {"is_full_drain", "trns_count_customer", "daily_trns_velocity"}

\* an aggregation that averages every column
AggValue_MeanOnly(col, xs) == SeqMean(xs)

AggValue(col, xs) == IF col \in SumCols THEN SeqSum(xs) ELSE SeqMean(xs)

\* groupby('nameOrig') yields the groups in ascending key order
CustomerOrder == <<"C1", "C2", "C3">>

GroupKeys(rs) ==
    SelectSeq(CustomerOrder, LAMBDA c : \E i \in 1..Len(rs) : rs[i].nameOrig = c)

GroupRows(rs, c) == SelectSeq(rs, LAMBDA r : r.nameOrig = c)

\* select_dtypes(include=[np.number]) of the feature table
AggregatedCols(t) == NumericCols(t)

\* an aggregation that yields no customer without an originator-id column
AggregateToCustomer_EmptyWithoutKey(t) ==
    IF "nameOrig" \notin t.cols THEN Table(t.cols, <<>>)
    ELSE LET keys == GroupKeys(t.rows)
             num == AggregatedCols(t)
         IN  Table(num \cup {"nameOrig"},
                   [k \in 1..Len(keys) |->
                       LET grp == GroupRows(t.rows, keys[k])
                       IN  [c \in num \cup {"nameOrig"} |->
                               IF c = "nameOrig" THEN keys[k]
                               ELSE AggValue(c, Column(grp, c))]])

AggregateToCustomer(t) ==
    IF "nameOrig" \notin t.cols THEN t
    ELSE LET keys == GroupKeys(t.rows)
             num == AggregatedCols(t)
         IN  Table(num \cup {"nameOrig"},
                   [k \in 1..Len(keys) |->
                       LET grp == GroupRows(t.rows, keys[k])
                       IN  [c \in num \cup {"nameOrig"} |->
                               IF c = "nameOrig" THEN keys[k]
                               ELSE AggValue(c, Column(grp, c))]])

\* Series.std() > 0 : the sample standard deviation (ddof = 1) is NaN for one
\* value, and NaN > 0 is False
StdPositive(xs) ==
    LET n == Len(xs)
        sq == [i \in 1..n |-> xs[i] * xs[i]]
    IN  n >= 2 /\ n * SeqSum(sq) - SeqSum(xs) * SeqSum(xs) > 0

\* `if not available_features` of compute_risk_scores
NoFeaturesAvailable_Never(available) == FALSE

NoFeaturesAvailable(available) == available = {}

GetAvailableFeatures(t) ==
    { f \in risk_features : f \in NumericCols(t) /\ StdPositive(Column(t.rows, f)) }

RECURSIVE IsqrtIter(_, _, _)
IsqrtIter(v, lo, hi) ==
    IF hi - lo <= 1 THEN lo
    ELSE LET mid == (lo + hi) \div 2
         IN  IF mid * mid <= v THEN IsqrtIter(v, mid, hi) ELSE IsqrtIter(v, lo, mid)

\* the floor of the square root of v >= 0
Isqrt(v) == IsqrtIter(v, 0, IF v < 46340 THEN v + 1 ELSE 46340)

\* z-scores over the sample standard deviation (ddof = 1)
ZScores_SampleStd(xs) ==
    LET n == Len(xs)
        total == SeqSum(xs)
        d == [j \in 1..n |-> n * xs[j] - total]
        dd == SeqSum([j \in 1..n |-> d[j] * d[j]])
    IN  [i \in 1..n |->
            LET mag == Isqrt((Scale * Scale * (n - 1) * d[i] * d[i]) \div dd)
            IN  IF d[i] < 0 THEN -mag ELSE mag]

\* scipy.stats.zscore(xs): (xs[i] - mean) / population std for every i, in
\* fixed point: with d[j] = n*xs[j] - sum(xs) the i-th z-score is
\* sign(d[i]) * sqrt(n * d[i]^2 / sum(d^2))
ZScores(xs) ==
    LET n == Len(xs)
        total == SeqSum(xs)
        d == [j \in 1..n |-> n * xs[j] - total]
        dd == SeqSum([j \in 1..n |-> d[j] * d[j]])
    IN  [i \in 1..n |->
            LET mag == Isqrt((Scale * Scale * n * d[i] * d[i]) \div dd)
            IN  IF d[i] < 0 THEN -mag ELSE mag]

ZscoreCol(f) == f \o "_zscore"

RECURSIVE ComputeZScores(_, _)
ComputeZScores(t, fs) ==
    IF fs = {} THEN t
    ELSE LET f == CHOOSE g \in fs : TRUE
         IN  ComputeZScores(WithColumn(t, ZscoreCol(f), ZScores(Column(t.rows, f))),
                            fs \ {f})

\* a column test that also takes risk_score for a z-score column
EndsWithZscore_OrRiskScore(c) ==
    c \in {ZscoreCol(f) : f \in risk_features} \cup {"composite_zscore", "risk_score"}

\* c.endswith('_zscore') over the column names that occur
EndsWithZscore(c) == c \in {ZscoreCol(f) : f \in risk_features} \cup {"composite_zscore"}

RECURSIVE SetSum(_, _)
SetSum(S, r) ==
    IF S = {} THEN 0
    ELSE LET c == CHOOSE x \in S : TRUE IN Abs(r[c]) + SetSum(S \ {c}, r)

\* the mean over z_cols of the absolute z-scores of one row
CompositeZscore(r, zcols) == SetSum(zcols, r) \div Cardinality(zcols)

\* the rescaling without the shift by min_val
RiskScoreValue_NoShift(c, min_val, max_val) ==
    IF max_val > min_val
    THEN (c * 100 * Scale) \div max_val
    ELSE Fix(50)

\* the rescaling whose degenerate case yields 0
RiskScoreValue_DegenerateZero(c, min_val, max_val) ==
    IF max_val > min_val
    THEN ((c - min_val) * 100 * Scale) \div (max_val - min_val)
    ELSE 0

\* a rescaling that gives the largest composite the score 0
RiskScoreValue_Inverted(c, min_val, max_val) ==
    IF max_val > min_val
    THEN ((max_val - c) * 100 * Scale) \div (max_val - min_val)
    ELSE Fix(50)

\* (composite - min_val) / (max_val - min_val) * 100, or 50.0: the score on the
\* fixed-point grid, so that customers with different composite_zscore get
\* different scores as they do in double precision
RiskScoreValue(c, min_val, max_val) ==
    IF max_val > min_val
    THEN ((c - min_val) * 100 * Scale) \div (max_val - min_val)
    ELSE Fix(50)

ComputeFinalScore(t) ==
    LET n == Len(t.rows)
        z_cols == { c \in t.cols : EndsWithZscore(c) }
    IN  IF z_cols = {}
        THEN WithColumn(WithColumn(t, "composite_zscore", [i \in 1..n |-> 0]),
                        "risk_score", [i \in 1..n |-> 0])
        ELSE LET comp == [i \in 1..n |-> CompositeZscore(t.rows[i], z_cols)]
                 min_val == SeqMin(comp)
                 max_val == SeqMax(comp)
                 t1 == WithColumn(t, "composite_zscore", comp)
             IN  WithColumn(t1, "risk_score",
                     [i \in 1..n |-> RiskScoreValue(comp[i], min_val, max_val)])

RECURSIVE GetBandFrom(_, _)
GetBandFrom(score, k) ==
    IF k > Len(risk_bands) THEN "Critical"
    ELSE IF risk_bands[k].low <= score /\ score < risk_bands[k].high
         THEN risk_bands[k].band
         ELSE GetBandFrom(score, k + 1)

\* the bands as intervals open below and closed above
GetBand_UpperClosed(score) ==
    IF Fix(0) < score /\ score <= Fix(25) THEN "Low"
    ELSE IF Fix(25) < score /\ score <= Fix(50) THEN "Medium"
    ELSE IF Fix(50) < score /\ score <= Fix(75) THEN "High"
    ELSE "Critical"

GetBand(score) == GetBandFrom(score, 1)

AssignRiskBands(t) ==
    WithColumn(t, "risk_band", [i \in 1..Len(t.rows) |-> GetBand(t.rows[i].risk_score)])

\* an anomaly test against the default threshold, whatever was configured
IsAnomaly_DefaultThreshold(composite, threshold) ==
    IF composite > Fix(2) THEN Fix(1) ELSE 0

\* (composite_zscore > z_score_threshold).astype(int)
IsAnomaly(composite, threshold) == IF composite > threshold THEN Fix(1) ELSE 0

FlagAnomalies(t, threshold) ==
    WithColumn(t, "is_anomaly",
               [i \in 1..Len(t.rows) |-> IsAnomaly(t.rows[i].composite_zscore, threshold)])

GetRiskScores(t) ==
    IF t.isNone THEN NoTable
    ELSE Project(t, {"nameOrig", "composite_zscore", "risk_score", "risk_band",
                     "is_anomaly"} \cap t.cols)

GetFullData(t) == t

\* what compute_risk_scores leaves in the scorer for the feature table t
ScoredTable(t, threshold) ==
    LET agg == AggregateToCustomer(t)
        available_features == GetAvailableFeatures(agg)
    IN  IF NoFeaturesAvailable(available_features) THEN agg
        ELSE FlagAnomalies(AssignRiskBands(ComputeFinalScore(
                 ComputeZScores(agg, available_features))), threshold)

----------------------------------------------------------------------------
(* TransactionFlagger *)

\* a positional join: the value of the risk table's first row for every hit
MapOrDefault_FirstRow(risk, c, col, default) ==
    IF \A i \in 1..Len(risk.rows) : risk.rows[i].nameOrig # c THEN default
    ELSE risk.rows[1][col]

\* dict(zip(risk['nameOrig'], risk[col])) applied by Series.map, then
\* fillna(default): the last row of an originator wins, a miss gets the default
MapOrDefault(risk, c, col, default) ==
    LET hits == { i \in 1..Len(risk.rows) : risk.rows[i].nameOrig = c }
    IN  IF hits = {} THEN default
        ELSE risk.rows[CHOOSE i \in hits : \A j \in hits : j <= i][col]

\* a strict comparison with the threshold
IsFlagged_Strict(score, threshold) == score > threshold

\* flagged_data['risk_score'] >= risk_threshold
IsFlagged(score, threshold) == score >= threshold

\* a lookup that raises on an originator the risk table does not have
FlagInputsOk_StrictJoin(transactions, risk) ==
    /\ ~transactions.isNone
    /\ ~risk.isNone
    /\ {"nameOrig", "risk_score", "risk_band", "is_anomaly"} \subseteq risk.cols
    /\ "nameOrig" \in transactions.cols
    /\ \A i \in 1..Len(transactions.rows) :
           \E k \in 1..Len(risk.rows) :
               risk.rows[k].nameOrig = transactions.rows[i].nameOrig

\* the columns whose lookup raises KeyError when they are absent
FlagInputsOk(transactions, risk) ==
    /\ ~transactions.isNone
    /\ ~risk.isNone
    /\ {"nameOrig", "risk_score", "risk_band", "is_anomaly"} \subseteq risk.cols
    /\ "nameOrig" \in transactions.cols

FlaggedTable(transactions, risk, threshold) ==
    LET n == Len(transactions.rows)
        name == [i \in 1..n |-> transactions.rows[i].nameOrig]
        score == [i \in 1..n |-> MapOrDefault(risk, name[i], "risk_score", 0)]
        t1 == WithColumn(transactions, "risk_score", score)
        t2 == WithColumn(t1, "risk_band",
                  [i \in 1..n |-> MapOrDefault(risk, name[i], "risk_band", "Low")])
        t3 == WithColumn(t2, "is_anomaly",
                  [i \in 1..n |-> MapOrDefault(risk, name[i], "is_anomaly", 0)])
    IN  WithColumn(t3, "is_flagged", [i \in 1..n |-> IsFlagged(score[i], threshold)])

\* the number of rows the summary counts under by_risk_band[band]
BandCount(t, band) == Len(SelectSeq(t.rows, LAMBDA r : r.risk_band = band))

\* round(flagged / total * 100, 2), in hundredths of a percent
FlaggedPercentage(flagged, total) ==
    IF total > 0 THEN (2 * flagged * 10000 + total) \div (2 * total) ELSE 0

FlagSummary(t, threshold) ==
    LET total == Len(t.rows)
        flagged_count == Len(SelectSeq(t.rows, LAMBDA r : r.is_flagged))
    IN  [total_transactions |-> total,
         flagged_transactions |-> flagged_count,
         flagged_percentage |-> FlaggedPercentage(flagged_count, total),
         by_risk_band |-> [Critical |-> BandCount(t, "Critical"),
                           High |-> BandCount(t, "High"),
                           Medium |-> BandCount(t, "Medium")],
         risk_threshold_used |-> threshold,
         anomalies |-> SeqSum(Column(t.rows, "is_anomaly"))]

----------------------------------------------------------------------------
(* The cleaned tables build_features is given: no duplicate rows *)

\* a transfer takes its amount from the originator's balance, down to zero
NewBalance(old, amount) == IF old > amount THEN old - amount ELSE 0

RawRows ==
    { [nameOrig |-> c, step |-> Fix(s), amount |-> Fix(a),
       oldbalanceOrg |-> Fix(b), newbalanceOrig |-> Fix(NewBalance(b, a))] :
        c \in Customers, s \in Steps, a \in Amounts, b \in OldBalances }

RawCols == {"nameOrig", "step", "amount", "oldbalanceOrg", "newbalanceOrig"}

NoDuplicates(rs) == \A i, j \in 1..Len(rs) : rs[i] = rs[j] => i = j

\* originator ids are opaque: the tables name them in the order they first appear
FirstAppearanceOrder(rs) ==
    \A i \in 1..Len(rs) :
        \A c \in Customers :
            Rank(c) < Rank(rs[i].nameOrig) => \E j \in 1..(i - 1) : rs[j].nameOrig = c

CleanedTables ==
    { Table(RawCols, rs) :
        rs \in { q \in UNION { [1..n -> RawRows] : n \in 1..MaxRows } :
                    NoDuplicates(q) /\ FirstAppearanceOrder(q) } }

NoResult == [called |-> FALSE, success |-> FALSE]

(***************************************************************************)
(* One pipeline run over one cleaned table: every component is built with  *)
(* its thresholds and then invoked at most once, build_features first,     *)
(* compute_risk_scores on its output (as built, or with the originator-id  *)
(* column removed), flag_transactions on the feature table and the         *)
(* scorer's projection.                                                    *)
(***************************************************************************)

\* MainController.__init__ and the constructors it calls
NoCall == [op |-> "none", success |-> FALSE, invoked |-> {}, arg |-> NoTable]

NoFlags == [data_loaded |-> FALSE, data_cleaned |-> FALSE, features_built |-> FALSE,
            customers_scored |-> FALSE, transactions_flagged |-> FALSE]

CleanerNew ==
    /\ cleaned_data = NoTable
    /\ missing_value_count = 0
    /\ duplicate_count = 0
    /\ invalid_value_count = 0

ControllerNew ==
    /\ state = NoFlags
    /\ raw_data = NoTable
    /\ is_loaded = FALSE
    /\ last_call = NoCall
    /\ build_failed = FALSE
    /\ loaded_ok = NoTable

\* the three components as constructed, with the table about to be handed in
PipelineNew(tables) ==
    /\ cleaned \in tables
    /\ \E cfg \in Configs :
         /\ z_score_threshold = cfg.z
         /\ risk_threshold = cfg.r
    /\ features = NoTable
    /\ risk_scores = NoTable
    /\ score_arg = NoTable
    /\ score_result = NoResult
    /\ flagged_data = NoTable
    /\ lookup = NoTable
    /\ flag_result = NoResult
    /\ summary = <<>>
    /\ is_flagged_done = FALSE
    /\ previous_scores = NoTable

Init ==
    /\ PipelineNew(CleanedTables)
    /\ CleanerNew
    /\ ControllerNew

\* FeatureBuilder.build_features(cleaned_data)
BuildFeatures ==
    /\ features.isNone
    /\ features' = BuildFeaturesTable(cleaned)
    /\ UNCHANGED <<cleaned, risk_scores, score_arg, score_result, flagged_data,
                   lookup, flag_result, summary, is_flagged_done,
                   z_score_threshold, risk_threshold, previous_scores>>
    /\ UNCHANGED <<cleanerVars, controllerVars>>

\* the feature table without its originator-id column
WithoutNameOrig(t) == Project(t, t.cols \ {"nameOrig"})

ScoreUnchanged ==
    UNCHANGED <<cleaned, features, flagged_data, lookup, flag_result, summary,
                is_flagged_done, z_score_threshold, risk_threshold,
                cleanerVars, controllerVars>>

\* a scorer that stores its table only once the features were found eligible
ComputeRiskScores_StoreOnSuccess(arg) ==
    LET agg == AggregateToCustomer(arg)
        available_features == GetAvailableFeatures(agg)
    IN  /\ score_arg' = arg
        /\ IF NoFeaturesAvailable(available_features)
           THEN /\ risk_scores' = risk_scores
                /\ score_result' = [called |-> TRUE, success |-> FALSE]
           ELSE /\ risk_scores' = FlagAnomalies(AssignRiskBands(ComputeFinalScore(
                                      ComputeZScores(agg, available_features))),
                                      z_score_threshold)
                /\ score_result' = [called |-> TRUE, success |-> TRUE]
        /\ ScoreUnchanged

\* RiskScorer.compute_risk_scores(arg)
ComputeRiskScores(arg) ==
    LET agg == AggregateToCustomer(arg)
        available_features == GetAvailableFeatures(agg)
    IN  /\ score_arg' = arg
        /\ IF NoFeaturesAvailable(available_features)
           THEN /\ risk_scores' = agg
                /\ score_result' = [called |-> TRUE, success |-> FALSE]
           ELSE /\ risk_scores' = FlagAnomalies(AssignRiskBands(ComputeFinalScore(
                                      ComputeZScores(agg, available_features))),
                                      z_score_threshold)
                /\ score_result' = [called |-> TRUE, success |-> TRUE]
        /\ ScoreUnchanged

ScoreFeatures ==
    /\ ~features.isNone
    /\ ~score_result.called
    /\ ComputeRiskScores(features)
    /\ UNCHANGED previous_scores

ScoreWithoutNameOrig ==
    /\ ~features.isNone
    /\ ~score_result.called
    /\ ComputeRiskScores(WithoutNameOrig(features))
    /\ UNCHANGED previous_scores

\* the risk table without the rows of the originators in drop
WithoutCustomers(t, drop) ==
    IF t.isNone \/ "nameOrig" \notin t.cols THEN t
    ELSE Table(t.cols, SelectSeq(t.rows, LAMBDA r : r.nameOrig \notin drop))

\* TransactionFlagger.flag_transactions(features, risk): flagged_data is the
\* table object FeatureBuilder holds, so the new columns show in both
FlagTransactions(risk) ==
    /\ lookup' = risk
    /\ IF FlagInputsOk(features, risk)
       THEN LET flagged == FlaggedTable(features, risk, risk_threshold)
            IN  /\ flagged_data' = flagged
                /\ features' = flagged
                /\ summary' = FlagSummary(flagged, risk_threshold)
                /\ is_flagged_done' = TRUE
                /\ flag_result' = [called |-> TRUE, success |-> TRUE]
       ELSE /\ flagged_data' = features
            /\ is_flagged_done' = FALSE
            /\ flag_result' = [called |-> TRUE, success |-> FALSE]
            /\ UNCHANGED <<features, summary>>
    /\ UNCHANGED <<cleaned, risk_scores, score_arg, score_result,
                   z_score_threshold, risk_threshold, previous_scores>>
    /\ UNCHANGED <<cleanerVars, controllerVars>>

\* the originator ids of a risk table
RiskTableCustomers(t) ==
    IF t.isNone \/ "nameOrig" \notin t.cols THEN {}
    ELSE { t.rows[i].nameOrig : i \in 1..Len(t.rows) }

\* the caller passes the scorer's projection, whole or without one originator
FlagFeatures ==
    /\ ~GetFeatures(features).isNone
    /\ score_result.called
    /\ ~flag_result.called
    /\ LET scores == GetRiskScores(risk_scores)
       IN  \E drop \in {{}} \cup {{c} : c \in RiskTableCustomers(scores)} :
              FlagTransactions(WithoutCustomers(scores, drop))

Next == BuildFeatures \/ ScoreFeatures \/ ScoreWithoutNameOrig \/ FlagFeatures

Spec == Init /\ [][Next]_vars

----------------------------------------------------------------------------
(* TransactionCleaner over raw tables with duplicate rows and negative amounts *)

\* _handle_missing_values on a table without a missing cell: initial_missing
\* is 0, no column is touched and missing_value_count becomes 0
HandleMissingValues(t) == t

\* drop_duplicates: the first of several identical rows stays
RECURSIVE DropDuplicates(_)
DropDuplicates(rs) ==
    IF rs = <<>> THEN <<>>
    ELSE LET front == DropDuplicates(SubSeq(rs, 1, Len(rs) - 1))
             last == rs[Len(rs)]
         IN  IF \E i \in 1..Len(front) : front[i] = last THEN front
             ELSE Append(front, last)

RemoveDuplicates(t) == [t EXCEPT !.rows = DropDuplicates(t.rows)]

\* cleaned_data['amount'] < 0 raises TypeError on a column of text
CleanRaises(t) == "amount" \in t.cols /\ "amount" \in TextCols(t)

\* negative_mask.sum()
NegativeCount(t) ==
    IF "amount" \in t.cols THEN Len(SelectSeq(t.rows, LAMBDA r : r.amount < 0)) ELSE 0

\* cleaned_data.loc[negative_mask, 'amount'] = 0
HandleInvalidValues(t) ==
    IF "amount" \in t.cols
    THEN WithColumn(t, "amount",
            [i \in 1..Len(t.rows) |-> IF t.rows[i].amount < 0 THEN 0 ELSE t.rows[i].amount])
    ELSE t

\* get_cleaned_data returns a copy of the cleaner's table
GetCleanedData(t) == t

\* TransactionCleaner.get_cleaning_stats()
GetCleaningStats ==
    [missing_values_handled |-> missing_value_count,
     duplicates_removed |-> duplicate_count,
     invalid_value_count |-> invalid_value_count,
     total_issues_resolved |->
         missing_value_count + duplicate_count + invalid_value_count,
     final_record_count |->
         IF cleaned_data.isNone THEN 0 ELSE Len(cleaned_data.rows)]

RawAmounts == {-2, -1, 0, 1}

RawInputRows ==
    { [nameOrig |-> c, step |-> Fix(1), amount |-> Fix(a),
       oldbalanceOrg |-> Fix(4), newbalanceOrig |-> Fix(4)] :
        c \in {"C1", "C2"}, a \in RawAmounts }

\* the raw tables clean_data is given: no cell is missing
RawInputTables ==
    { Table(RawCols, rs) : rs \in UNION { [1..n -> RawInputRows] : n \in 1..MaxRows } }

\* the pipeline components as constructed with the default thresholds, unused
PipelineUnused ==
    /\ PipelineNew({NoTable})
    /\ z_score_threshold = Fix(2)
    /\ risk_threshold = Fix(50)

CleanerInit ==
    /\ PipelineUnused
    /\ CleanerNew
    /\ state = NoFlags
    /\ raw_data \in RawInputTables
    /\ is_loaded = TRUE
    /\ last_call = NoCall
    /\ build_failed = FALSE
    /\ loaded_ok = NoTable

\* TransactionCleaner.clean_data(raw): the copy is stored first, and a raise in
\* _handle_invalid_values leaves it there with its duplicates removed
CleanDataCall(raw) ==
    LET filled == HandleMissingValues(raw)
        unique == RemoveDuplicates(filled)
    IN  /\ missing_value_count' = 0
        /\ duplicate_count' = Len(filled.rows) - Len(unique.rows)
        /\ IF CleanRaises(unique)
           THEN /\ cleaned_data' = unique
                /\ UNCHANGED invalid_value_count
           ELSE /\ cleaned_data' = HandleInvalidValues(unique)
                /\ invalid_value_count' = invalid_value_count + NegativeCount(unique)

\* clean_data on the raw table, again while the running count of invalid
\* values is within the bound
CleanData ==
    /\ invalid_value_count <= MaxRows
    /\ CleanDataCall(raw_data)
    /\ last_call' = [op |-> "clean_data", success |-> ~CleanRaises(raw_data),
                     invoked |-> {"TransactionCleaner"}, arg |-> raw_data]
    /\ UNCHANGED <<pipelineVars, state, raw_data, is_loaded, build_failed, loaded_ok>>

CleanerSpec == CleanerInit /\ [][CleanData]_vars

----------------------------------------------------------------------------
(* DataManager and MainController over a few files *)

required_columns ==
    {"step", "type", "amount", "nameOrig", "oldbalanceOrg", "newbalanceOrig",
     "nameDest", "oldbalanceDest", "newbalanceDest", "isFraud", "isFlaggedFraud"}

\* validate_data: data is loaded, no required column is missing, some row exists
ValidateData(t, loaded) ==
    /\ loaded
    /\ ~t.isNone
    /\ required_columns \subseteq t.cols
    /\ Len(t.rows) > 0

\* get_raw_data returns a copy of the manager's table
GetRawData(t) == t

\* the columns build_features reads
FeatureInputCols == {"oldbalanceOrg", "amount", "newbalanceOrig", "step", "nameOrig"}

\* build_features raises on a missing table, on a missing column and on the
\* division of a text amount
BuildRaises(t) ==
    \/ t.isNone
    \/ ~(FeatureInputCols \subseteq t.cols)
    \/ "amount" \in TextCols(t)

ScoreSucceeds(t) == ~NoFeaturesAvailable(GetAvailableFeatures(AggregateToCustomer(t)))

StageOrder ==
    <<"data_loaded", "data_cleaned", "features_built", "customers_scored",
      "transactions_flagged">>

Position(stage) == CHOOSE i \in 1..Len(StageOrder) : StageOrder[i] = stage

\* a reset that clears the next stage only
ResetDownstream_NextOnly(st, from_state) ==
    [k \in DOMAIN st |->
        IF Position(k) = Position(from_state) + 1 THEN FALSE ELSE st[k]]

\* _reset_downstream: every stage after from_state becomes False
ResetDownstream(st, from_state) ==
    [k \in DOMAIN st |-> IF Position(k) > Position(from_state) THEN FALSE ELSE st[k]]

\* a stage succeeded: its flag is set and the later ones are reset
StageDone(st, stage) == ResetDownstream([st EXCEPT ![stage] = TRUE], stage)

FileRow(c, a) ==
    [step |-> Fix(1), type |-> "TRANSFER", amount |-> a, nameOrig |-> c,
     oldbalanceOrg |-> Fix(4), newbalanceOrig |-> Fix(4), nameDest |-> "M1",
     oldbalanceDest |-> 0, newbalanceDest |-> 0, isFraud |-> 0, isFlaggedFraud |-> 0]

\* the same table without its nameDest column
WithoutNameDest(t) == [t EXCEPT !.cols = @ \ {"nameDest"},
                                !.rows = [i \in 1..Len(t.rows) |->
                                    [c \in t.cols \ {"nameDest"} |-> t.rows[i][c]]]]

\* two customers with different amounts; one customer; two customers without
\* nameDest; the same with amounts written as text; a path that does not
\* exist; a file that is no CSV file
Files ==
    { [path |-> "two.csv", found |-> TRUE,
       table |-> Table(required_columns, <<FileRow("C1", Fix(1)), FileRow("C2", Fix(5))>>)],
      [path |-> "one.csv", found |-> TRUE,
       table |-> Table(required_columns, <<FileRow("C1", Fix(1))>>)],
      [path |-> "short.csv", found |-> TRUE,
       table |-> WithoutNameDest(
                    Table(required_columns, <<FileRow("C1", Fix(5)), FileRow("C2", Fix(1))>>))],
      [path |-> "text.csv", found |-> TRUE,
       table |-> WithoutNameDest(
                    [isNone |-> FALSE, cols |-> required_columns,
                     rows |-> <<FileRow("C1", "1,000"), FileRow("C2", "5,000")>>,
                     text |-> {"amount"}])],
      [path |-> "missing.csv", found |-> FALSE, table |-> NoTable],
      [path |-> "two.txt", found |-> TRUE,
       table |-> Table(required_columns, <<FileRow("C1", Fix(1)), FileRow("C2", Fix(5))>>)] }

\* file_path.endswith(".csv") over the paths that occur
IsCsv(path) == path \in {"two.csv", "one.csv", "short.csv", "text.csv", "missing.csv"}

ControllerInit ==
    /\ PipelineUnused
    /\ CleanerNew
    /\ ControllerNew

Refused(op) == [op |-> op, success |-> FALSE, invoked |-> {}, arg |-> NoTable]

\* MainController.load_dataset(f.path) with DataManager.load_data: the table
\* read replaces raw_data before it is validated
LoadDataset(f) ==
    /\ IF ~f.found \/ ~IsCsv(f.path)
       THEN /\ UNCHANGED <<raw_data, is_loaded, state, loaded_ok>>
            /\ last_call' = [op |-> "load_dataset", success |-> FALSE,
                             invoked |-> {"DataManager"}, arg |-> NoTable]
       ELSE LET valid == ValidateData(f.table, TRUE)
            IN  /\ raw_data' = f.table
                /\ is_loaded' = TRUE
                /\ state' = IF valid THEN StageDone(state, "data_loaded") ELSE state
                /\ loaded_ok' = IF valid THEN f.table ELSE loaded_ok
                /\ last_call' = [op |-> "load_dataset", success |-> valid,
                                 invoked |-> {"DataManager"}, arg |-> f.table]
    /\ UNCHANGED <<pipelineVars, cleanerVars, build_failed>>

\* MainController.clean_data
ControllerCleanData ==
    /\ IF ~state.data_loaded
       THEN /\ last_call' = Refused("clean_data")
            /\ UNCHANGED <<cleanerVars, state>>
       ELSE LET data == GetRawData(raw_data)
                success == ~CleanRaises(data)
            IN  /\ CleanDataCall(data)
                /\ state' = IF success THEN StageDone(state, "data_cleaned") ELSE state
                /\ last_call' = [op |-> "clean_data", success |-> success,
                                 invoked |-> {"TransactionCleaner"}, arg |-> data]
    /\ UNCHANGED <<pipelineVars, raw_data, is_loaded, build_failed, loaded_ok>>

\* MainController.build_features: the files of the model miss no column that
\* build_features reads, so a failing build raises at its first statement and
\* leaves in FeatureBuilder the table it was given
ControllerBuildFeatures ==
    /\ IF ~state.data_cleaned
       THEN /\ last_call' = Refused("build_features")
            /\ UNCHANGED <<features, state, build_failed>>
       ELSE LET data == GetCleanedData(cleaned_data)
                success == ~BuildRaises(data)
            IN  /\ features' = IF success THEN BuildFeaturesTable(data) ELSE data
                /\ state' = IF success THEN StageDone(state, "features_built") ELSE state
                /\ build_failed' = ~success
                /\ last_call' = [op |-> "build_features", success |-> success,
                                 invoked |-> {"FeatureBuilder"}, arg |-> data]
    /\ UNCHANGED <<cleaned, risk_scores, score_arg, score_result, flagged_data,
                   lookup, flag_result, summary, is_flagged_done,
                   z_score_threshold, risk_threshold, previous_scores>>
    /\ UNCHANGED <<cleanerVars, raw_data, is_loaded, loaded_ok>>

\* MainController.score_customers
ScoreCustomers ==
    /\ IF ~state.features_built
       THEN /\ last_call' = Refused("score_customers")
            /\ UNCHANGED <<risk_scores, score_result, state>>
       ELSE LET arg == GetFeatures(features)
                success == ScoreSucceeds(arg)
            IN  /\ risk_scores' = ScoredTable(arg, z_score_threshold)
                /\ score_result' = [called |-> TRUE, success |-> success]
                /\ state' = IF success THEN StageDone(state, "customers_scored") ELSE state
                /\ last_call' = [op |-> "score_customers", success |-> success,
                                 invoked |-> {"RiskScorer"}, arg |-> arg]
    /\ UNCHANGED <<cleaned, features, score_arg, flagged_data, lookup, flag_result,
                   summary, is_flagged_done, z_score_threshold, risk_threshold,
                   previous_scores>>
    /\ UNCHANGED <<cleanerVars, raw_data, is_loaded, build_failed, loaded_ok>>

\* MainController.flag_transactions
ControllerFlagTransactions ==
    /\ IF ~state.customers_scored
       THEN /\ last_call' = Refused("flag_transactions")
            /\ UNCHANGED <<features, flagged_data, flag_result, summary,
                           is_flagged_done, state>>
       ELSE LET arg == GetFeatures(features)
                scores == GetRiskScores(risk_scores)
                success == FlagInputsOk(arg, scores)
            IN  /\ IF success
                   THEN LET flagged == FlaggedTable(arg, scores, risk_threshold)
                        IN  /\ flagged_data' = flagged
                            /\ features' = flagged
                            /\ summary' = FlagSummary(flagged, risk_threshold)
                   ELSE /\ flagged_data' = arg
                        /\ UNCHANGED <<features, summary>>
                /\ is_flagged_done' = success
                /\ flag_result' = [called |-> TRUE, success |-> success]
                /\ state' = IF success THEN [state EXCEPT !.transactions_flagged = TRUE]
                             ELSE state
                /\ last_call' = [op |-> "flag_transactions", success |-> success,
                                 invoked |-> {"TransactionFlagger"}, arg |-> arg]
    /\ UNCHANGED <<cleaned, risk_scores, score_arg, score_result, lookup,
                   z_score_threshold, risk_threshold, previous_scores>>
    /\ UNCHANGED <<cleanerVars, raw_data, is_loaded, build_failed, loaded_ok>>

ControllerNext ==
    \/ \E f \in Files : LoadDataset(f)
    \/ ControllerCleanData
    \/ ControllerBuildFeatures
    \/ ScoreCustomers
    \/ ControllerFlagTransactions

ControllerSpec == ControllerInit /\ [][ControllerNext]_vars

----------------------------------------------------------------------------
(* The pipeline with compute_risk_scores invoked a second time *)

\* the cleaned tables whose originators all start from a positive balance
RerunTables ==
    { t \in CleanedTables : \A i \in 1..Len(t.rows) : t.rows[i].oldbalanceOrg > 0 }

RescoreInit ==
    /\ PipelineNew(RerunTables)
    /\ CleanerNew
    /\ ControllerNew

\* score_customers once more: compute_risk_scores on what get_features
\* returns now, before or after flag_transactions
RescoreFeatures ==
    /\ ~GetFeatures(features).isNone
    /\ score_result.called
    /\ previous_scores.isNone
    /\ previous_scores' = GetRiskScores(risk_scores)
    /\ ComputeRiskScores(GetFeatures(features))

RescoreNext == BuildFeatures \/ ScoreFeatures \/ FlagFeatures \/ RescoreFeatures

RescoreSpec == RescoreInit /\ [][RescoreNext]_vars

----------------------------------------------------------------------------
(* build_features over long runs of one originator *)

RunAmounts == {1, 6}

\* steps 1..n in the order the rows are given: ascending, descending, rotated
StepOrders == {"ascending", "descending", "rotated"}

StepAt(order, i, n) ==
    CASE order = "ascending" -> i
      [] order = "descending" -> n + 1 - i
      [] order = "rotated" -> (i % n) + 1

RunRow(c, s, a) ==
    [nameOrig |-> c, step |-> Fix(s), amount |-> Fix(a),
     oldbalanceOrg |-> Fix(4), newbalanceOrig |-> Fix(NewBalance(4, a))]

\* originator C2 with the amounts as at the steps 1..Len(as) in the order o
Run(o, as) == [i \in 1..Len(as) |-> RunRow("C2", StepAt(o, i, Len(as)), as[i])]

\* a run of originator C2, given after a row of C3 and before a row of C1 or
\* without them: the longest runs over RunAmounts, and one run of every length
RunTables ==
    { Table(RawCols, before \o Run(o, as) \o after) :
        before \in {<<>>, <<RunRow("C3", 1, 9)>>},
        after \in {<<>>, <<RunRow("C1", 1, 9)>>},
        o \in StepOrders,
        as \in [1..MaxRun -> RunAmounts] \cup
                 { [i \in 1..n |-> 1 + ((i * i) % 7)] : n \in 1..MaxRun } }

\* originator C1 with amounts 100..600 at steps 1..6
ExampleRun == Table(RawCols, [i \in 1..6 |-> RunRow("C1", i, 100 * i)])

RollingInit ==
    /\ PipelineNew(RunTables \cup {ExampleRun})
    /\ CleanerNew
    /\ ControllerNew

RollingSpec == RollingInit /\ [][BuildFeatures]_vars

----------------------------------------------------------------------------
(* build_features and compute_risk_scores over transactions of two days *)

DaySteps == {1, 25}

DayRows ==
    { [nameOrig |-> c, step |-> Fix(s), amount |-> Fix(a),
       oldbalanceOrg |-> Fix(4), newbalanceOrig |-> Fix(NewBalance(4, a))] :
        c \in {"C1", "C2"}, s \in DaySteps, a \in {1, 5} }

DayTables ==
    { Table(RawCols, rs) :
        rs \in { q \in UNION { [1..n -> DayRows] : n \in 1..MaxRows } :
                    NoDuplicates(q) /\ FirstAppearanceOrder(q) } }

DayInit ==
    /\ PipelineNew(DayTables)
    /\ CleanerNew
    /\ ControllerNew

DayNext == BuildFeatures \/ ScoreFeatures

DaySpec == DayInit /\ [][DayNext]_vars

----------------------------------------------------------------------------
(* Properties *)

ScoreOk == score_result.called /\ score_result.success
ScoreFailed == score_result.called /\ ~score_result.success
FlagOk == flag_result.called /\ flag_result.success

Scored == 1..Len(risk_scores.rows)
ScoredRow(i) == risk_scores.rows[i]
FlaggedRows == 1..Len(flagged_data.rows)
FlaggedRow(i) == flagged_data.rows[i]

\* the rows of the risk table passed to flag_transactions that carry originator c
LookupHits(c) == { k \in 1..Len(lookup.rows) : lookup.rows[k].nameOrig = c }

\* C1: after a successful compute_risk_scores over customers with at least two
\* different composite_zscore values, every risk_score lies in [0,100], every
\* customer with the minimum composite_zscore has risk_score 0 and every
\* customer with the maximum composite_zscore has risk_score 100.
C1_RiskScoreSpansRange ==
    (ScoreOk /\ \E i, j \in Scored :
                    ScoredRow(i).composite_zscore # ScoredRow(j).composite_zscore)
    => \A i \in Scored :
          /\ 0 <= ScoredRow(i).risk_score /\ ScoredRow(i).risk_score <= Fix(100)
          /\ (\A j \in Scored : ScoredRow(i).composite_zscore <= ScoredRow(j).composite_zscore)
                => ScoredRow(i).risk_score = 0
          /\ (\A j \in Scored : ScoredRow(i).composite_zscore >= ScoredRow(j).composite_zscore)
                => ScoredRow(i).risk_score = Fix(100)

\* three customers by originator id whose smallest composite_zscore is above zero
\* and whose scores are 0, something in between, and 100
C1_Witness ==
    /\ ScoreOk
    /\ "nameOrig" \in risk_scores.cols
    /\ \A i \in Scored : ScoredRow(i).composite_zscore > 0
    /\ \E i, j, k \in Scored :
          /\ ScoredRow(i).risk_score = 0
          /\ 0 < ScoredRow(j).risk_score /\ ScoredRow(j).risk_score < Fix(100)
          /\ ScoredRow(k).risk_score = Fix(100)

\* C2: after a successful compute_risk_scores in which all customers have the
\* same composite_zscore, every risk_score is exactly 50.0.
C2_EqualCompositeGivesFifty ==
    (ScoreOk /\ \A i, j \in Scored :
                    ScoredRow(i).composite_zscore = ScoredRow(j).composite_zscore)
    => \A i \in Scored : ScoredRow(i).risk_score = Fix(50)

C2_Witness ==
    /\ ScoreOk
    /\ Len(risk_scores.rows) >= 2
    /\ \A i, j \in Scored : ScoredRow(i).composite_zscore = ScoredRow(j).composite_zscore
    /\ \A i \in Scored : ScoredRow(i).risk_score = Fix(50)

\* the band of a score by the half-open intervals of the specification
IntervalBand(s) ==
    CASE Fix(0) <= s /\ s < Fix(25) -> "Low"
      [] Fix(25) <= s /\ s < Fix(50) -> "Medium"
      [] Fix(50) <= s /\ s < Fix(75) -> "High"
      [] Fix(75) <= s /\ s < Fix(100) -> "Critical"
      [] s >= Fix(100) -> "Critical"

\* every band limit with its two neighbours, and every tenth score up to 110
ScoreGrid ==
    { s \in { Fix(b) + d : b \in {0, 25, 50, 75, 100}, d \in {-1, 0, 1} } : s >= 0 }
        \cup { Fix(10 * k) : k \in 0..11 }

\* C3: the band of every risk_score s in [0,100] is the one of Low [0,25),
\* Medium [25,50), High [50,75), Critical [75,100) that contains s, and every
\* s >= 100 is Critical; it holds of every scored customer and of every score
\* of the grid.
C3_BandsAreHalfOpenIntervals ==
    /\ \A s \in ScoreGrid : GetBand(s) = IntervalBand(s)
    /\ ScoreOk => \A i \in Scored :
                     ScoredRow(i).risk_band = IntervalBand(ScoredRow(i).risk_score)

\* scored customers in three bands, one at the lower end 0 and one at 100
C3_Witness ==
    /\ ScoreOk
    /\ \E i, j, k \in Scored :
          /\ ScoredRow(i).risk_score = 0 /\ ScoredRow(i).risk_band = "Low"
          /\ ScoredRow(j).risk_band \in {"Medium", "High"}
          /\ ScoredRow(k).risk_score = Fix(100) /\ ScoredRow(k).risk_band = "Critical"

\* C4: after flag_transactions succeeds, a row is flagged if and only if the
\* risk_score of its originator in the risk table (0 when the originator is not
\* in it) is at least the flagger's risk_threshold.
C4_FlaggedIffScoreAtLeastThreshold ==
    FlagOk =>
      \A i \in FlaggedRows :
         LET hits == LookupHits(FlaggedRow(i).nameOrig)
         IN  FlaggedRow(i).is_flagged <=>
                \/ hits = {} /\ 0 >= risk_threshold
                \/ \E k \in hits : lookup.rows[k].risk_score >= risk_threshold

\* a flagged row whose score is exactly the threshold, or a batch with a
\* flagged and an unflagged row of originators the risk table has
C4_Witness ==
    /\ FlagOk
    /\ \E i \in FlaggedRows :
          /\ FlaggedRow(i).is_flagged
          /\ FlaggedRow(i).risk_score = risk_threshold
          /\ LookupHits(FlaggedRow(i).nameOrig) # {}

\* C5: with the default risk_threshold 50.0, flag_transactions succeeds on a
\* batch with rows whose originator is not in the risk table, and each such row
\* gets risk_score 0, risk_band Low, is_anomaly 0 and is_flagged false.
C5_UnmappedOriginatorDefaults ==
    (/\ flag_result.called
     /\ risk_threshold = Fix(50)
     /\ ~lookup.isNone
     /\ {"nameOrig", "risk_score", "risk_band", "is_anomaly"} \subseteq lookup.cols)
    => /\ flag_result.success
       /\ \A i \in FlaggedRows :
             LookupHits(FlaggedRow(i).nameOrig) = {} =>
                /\ FlaggedRow(i).risk_score = 0
                /\ FlaggedRow(i).risk_band = "Low"
                /\ FlaggedRow(i).is_anomaly = 0
                /\ FlaggedRow(i).is_flagged = FALSE

\* a successful batch under the default threshold with a row of an originator
\* the risk table lacks next to a flagged row of one it has
C5_Witness ==
    /\ FlagOk
    /\ risk_threshold = Fix(50)
    /\ \E i, j \in FlaggedRows :
          /\ LookupHits(FlaggedRow(i).nameOrig) = {}
          /\ LookupHits(FlaggedRow(j).nameOrig) # {}
          /\ FlaggedRow(j).is_flagged

\* C6: after flag_transactions succeeds, every row whose originator is in the
\* risk table carries that originator's risk_score, risk_band and is_anomaly.
C6_JoinedValuesMatchRiskTable ==
    FlagOk =>
      \A i \in FlaggedRows :
         \A k \in LookupHits(FlaggedRow(i).nameOrig) :
            /\ FlaggedRow(i).risk_score = lookup.rows[k].risk_score
            /\ FlaggedRow(i).risk_band = lookup.rows[k].risk_band
            /\ FlaggedRow(i).is_anomaly = lookup.rows[k].is_anomaly

\* a row of an anomalous originator that is not the first row of the risk table
C6_Witness ==
    /\ FlagOk
    /\ \E i \in FlaggedRows :
          /\ FlaggedRow(i).is_anomaly > 0
          /\ FlaggedRow(i).risk_score > 0
          /\ \E k \in LookupHits(FlaggedRow(i).nameOrig) : k > 1

\* the customers of the table given to compute_risk_scores: its originator
\* ids, or its rows when it has no originator-id column
CustomerCount(t) ==
    IF "nameOrig" \in t.cols
    THEN Cardinality({ t.rows[i].nameOrig : i \in 1..Len(t.rows) })
    ELSE Len(t.rows)

\* no candidate feature of the scorer's table takes two different values
NoDispersion(t) ==
    \A f \in risk_features \cap NumericCols(t) :
       \A i, j \in 1..Len(t.rows) : t.rows[i][f] = t.rows[j][f]

\* C7: compute_risk_scores returns failure whenever no candidate feature has a
\* non-zero standard deviation across the customers, and so for every input
\* with exactly one customer.
C7_FailsWithoutDispersion ==
    score_result.called =>
       /\ NoDispersion(risk_scores) => ~score_result.success
       /\ CustomerCount(score_arg) = 1 => ~score_result.success

\* a failed call over several customers whose candidate features all agree
C7_Witness ==
    /\ ScoreFailed
    /\ "nameOrig" \in score_arg.cols
    /\ CustomerCount(score_arg) >= 2
    /\ NoDispersion(risk_scores)

\* C8 as claimed: after compute_risk_scores failed for want of an eligible
\* feature the accessors return no table.
C8_NoTableAfterFailure ==
    ScoreFailed =>
       /\ GetFullData(risk_scores).isNone
       /\ GetRiskScores(risk_scores).isNone

ScoreColumns(t) == { c \in t.cols : EndsWithZscore(c) } \cup ({"risk_band"} \cap t.cols)

\* C8 as amended: after compute_risk_scores failed for want of an eligible
\* feature the scorer holds the table that call built, with one row per
\* customer of the input and without z-score, composite_zscore or risk_band
\* column; get_full_data returns it and get_risk_scores its projection.
C8_AggregateKeptAfterFailure ==
    ScoreFailed =>
       /\ ~GetFullData(risk_scores).isNone
       /\ Len(GetFullData(risk_scores).rows) = CustomerCount(score_arg)
       /\ ScoreColumns(GetFullData(risk_scores)) = {}
       /\ ~GetRiskScores(risk_scores).isNone
       /\ GetRiskScores(risk_scores).cols = {"nameOrig"} \cap score_arg.cols
       /\ Len(GetRiskScores(risk_scores).rows) = CustomerCount(score_arg)

C8_Witness ==
    /\ ScoreFailed
    /\ "nameOrig" \in risk_scores.cols
    /\ Len(risk_scores.rows) >= 2
    /\ "amount" \in risk_scores.cols

\* C9 as claimed: compute_risk_scores fails on every input without an
\* originator-id column.
C9_FailsWithoutNameOrig ==
    (score_result.called /\ "nameOrig" \notin score_arg.cols) => ~score_result.success

\* C9 as amended: on an input without an originator-id column
\* compute_risk_scores skips the aggregation and scores every input row as a
\* customer of its own; it succeeds when some candidate numeric feature takes
\* two different values across the rows and fails when none does.
C9_ScoresRowsWithoutNameOrig ==
    (score_result.called /\ "nameOrig" \notin score_arg.cols) =>
       /\ Len(risk_scores.rows) = Len(score_arg.rows)
       /\ \A i \in Scored : \A c \in score_arg.cols : ScoredRow(i)[c] = score_arg.rows[i][c]
       /\ score_result.success <=> ~NoDispersion(score_arg)
       /\ score_result.success =>
             {"composite_zscore", "risk_score", "risk_band", "is_anomaly"}
                \subseteq risk_scores.cols

C9_Witness ==
    /\ ScoreOk
    /\ "nameOrig" \notin score_arg.cols
    /\ Len(risk_scores.rows) >= 2
    /\ \E i \in Scored : ScoredRow(i).risk_score = Fix(100)

\* the rows of originator c in the table given to compute_risk_scores
InputRows(c) == SelectSeq(score_arg.rows, LAMBDA r : r.nameOrig = c)

\* v is the mean of xs, rounded down to the fixed-point grid
IsMeanOf(v, xs) == Len(xs) * v <= SeqSum(xs) /\ SeqSum(xs) < Len(xs) * (v + 1)

\* C10: in the customer aggregate built from FeatureBuilder output,
\* is_full_drain is the customer's number of full-drain rows,
\* trns_count_customer and daily_trns_velocity are the sums over the
\* customer's rows, and every other numeric field is the mean over them.
C10_AggregateSumsAndMeans ==
    (score_result.called /\ "nameOrig" \in score_arg.cols) =>
       \A k \in Scored :
          LET own == InputRows(ScoredRow(k).nameOrig)
          IN  /\ "is_full_drain" \in risk_scores.cols
              /\ ScoredRow(k)["is_full_drain"] =
                    Fix(Len(SelectSeq(own, LAMBDA r : r.is_full_drain)))
              /\ ScoredRow(k).trns_count_customer = SeqSum(Column(own, "trns_count_customer"))
              /\ ScoredRow(k).daily_trns_velocity = SeqSum(Column(own, "daily_trns_velocity"))
              /\ \A c \in NumericCols(score_arg) \ SumCols :
                    IsMeanOf(ScoredRow(k)[c], Column(own, c))

\* the columns flag_transactions writes
FlagColumns == {"risk_score", "risk_band", "is_anomaly", "is_flagged"}

\* C11: after build_features returns, the table the caller passed in has the
\* same columns, the same rows and the same row order as before the call.
C11_InputTableUnchanged ==
    ~features.isNone =>
       /\ features.cols = cleaned.cols
       /\ features.rows = cleaned.rows

\* C12: after flag_transactions has run, the table FeatureBuilder holds (as
\* get_features returns it) has gained none of the columns risk_score,
\* risk_band, is_anomaly and is_flagged.
C12_FeatureTableNotShared ==
    FlagOk => GetFeatures(features).cols \cap FlagColumns = {}

\* the number of flagged rows of the flagger's table that carry the band
FlaggedInBand(band) ==
    Len(SelectSeq(flagged_data.rows, LAMBDA r : r.is_flagged /\ r.risk_band = band))

\* C15: in the flag summary each by_risk_band count is the number of flagged
\* rows of that band, so the three counts never sum to more than
\* flagged_transactions.
C15_BandCountsCountFlaggedRows ==
    FlagOk =>
       /\ summary.by_risk_band.Critical = FlaggedInBand("Critical")
       /\ summary.by_risk_band.High = FlaggedInBand("High")
       /\ summary.by_risk_band.Medium = FlaggedInBand("Medium")
       /\ summary.by_risk_band.Critical + summary.by_risk_band.High
             + summary.by_risk_band.Medium <= summary.flagged_transactions

\* the bands in which a scored table has an anomalous customer
AnomalousBands(t) ==
    IF "is_anomaly" \notin t.cols THEN {}
    ELSE { t.rows[i].risk_band : i \in { k \in 1..Len(t.rows) : t.rows[k].is_anomaly = Fix(1) } }

\* the customer populations with one transaction per originator
OneRowPerCustomer ==
    { c \in CleanedTables :
        \A i, j \in 1..Len(c.rows) : c.rows[i].nameOrig = c.rows[j].nameOrig => i = j }

\* the bands that hold an anomalous customer in some of these populations
\* under some configured threshold
BandsWithAnomaly ==
    UNION { AnomalousBands(ScoredTable(BuildFeaturesTable(c), cfg.z)) :
               c \in OneRowPerCustomer, cfg \in Configs }

\* C17: is_anomaly is 1 exactly for the customers whose composite_zscore
\* exceeds z_score_threshold, whatever their band, and each of the bands Low,
\* Medium, High and Critical holds an anomalous customer in some scored
\* population.
C17_AnomalyIndependentOfBand ==
    /\ ScoreOk => \A i \in Scored :
                     /\ ScoredRow(i).is_anomaly \in {0, Fix(1)}
                     /\ ScoredRow(i).is_anomaly = Fix(1)
                           <=> ScoredRow(i).composite_zscore > z_score_threshold
    /\ BandsWithAnomaly = {"Low", "Medium", "High", "Critical"}

\* a scored population whose customer with risk_score 0, band Low, is
\* anomalous next to an anomalous customer with risk_score 100, band Critical
C17_Witness ==
    /\ ScoreOk
    /\ "nameOrig" \in risk_scores.cols
    /\ \E i, j \in Scored :
          /\ ScoredRow(i).risk_band = "Low" /\ ScoredRow(i).is_anomaly = Fix(1)
          /\ ScoredRow(j).risk_band = "Critical" /\ ScoredRow(j).is_anomaly = Fix(1)

\* the rows of the table handed to build_features that belong to the
\* originator of r and are not later than r
OwnUpTo(r) ==
    { k \in 1..Len(cleaned.rows) :
        cleaned.rows[k].nameOrig = r.nameOrig /\ cleaned.rows[k].step <= r.step }

\* r and up to 4 rows of its originator that precede it in step order
TrailingRows(r) ==
    { k \in OwnUpTo(r) :
        Cardinality({ j \in OwnUpTo(r) : cleaned.rows[j].step > cleaned.rows[k].step }) <= 4 }

RECURSIVE AmountSum(_)
AmountSum(S) ==
    IF S = {} THEN 0
    ELSE LET k == CHOOSE x \in S : TRUE IN cleaned.rows[k].amount + AmountSum(S \ {k})

\* C14: after build_features, rolling_mean_amount and rolling_max_amount of
\* every row are the mean and the maximum of amount over the row and up to the
\* 4 rows of the same originator that precede it in ascending step order; one
\* originator with amounts 100..600 at steps 1..6 has 400 and 600 at the 6th row.
C14_RollingOverLastFive ==
    ~features.isNone =>
       /\ \A i \in 1..Len(features.rows) :
             LET r == features.rows[i]
                 W == TrailingRows(r)
                 n == Cardinality(W)
             IN  /\ n * r.rolling_mean_amount <= AmountSum(W)
                 /\ AmountSum(W) < n * (r.rolling_mean_amount + 1)
                 /\ \E k \in W : cleaned.rows[k].amount = r.rolling_max_amount
                 /\ \A k \in W : cleaned.rows[k].amount <= r.rolling_max_amount
       /\ cleaned = ExampleRun =>
             /\ features.rows[6].rolling_mean_amount = Fix(400)
             /\ features.rows[6].rolling_max_amount = Fix(600)

\* a run given out of step order, after a row of another originator, whose
\* last row has more than 4 predecessors, the earliest of which holds the
\* largest amount of the run
C14_Witness ==
    /\ ~features.isNone
    /\ cleaned.rows[1].nameOrig = "C3"
    /\ \E i \in 1..(Len(cleaned.rows) - 1) : cleaned.rows[i].step > cleaned.rows[i + 1].step
    /\ \E i \in 1..Len(features.rows) :
          LET r == features.rows[i]
          IN  /\ Cardinality(OwnUpTo(r)) > rolling_window
              /\ r.rolling_max_amount < r.trns_max_customer
              /\ r.rolling_mean_amount # r.trns_avg_customer

\* C16: compute_risk_scores invoked again on the feature table yields for every
\* customer the composite_zscore, risk_score, risk_band and is_anomaly of the
\* invocation before, also when flag_transactions ran in between.
C16_RescoringRepeatsScores ==
    ~previous_scores.isNone => GetRiskScores(risk_scores) = previous_scores

\* a second scoring of a feature table that flag_transactions has extended,
\* over customers of different bands one of which is anomalous
C16_Witness ==
    /\ ~previous_scores.isNone
    /\ ScoreOk
    /\ FlagOk
    /\ FlagColumns \subseteq score_arg.cols
    /\ \E i, j \in Scored :
          /\ ScoredRow(i).risk_band # ScoredRow(j).risk_band
          /\ ScoredRow(i).is_anomaly = Fix(1)

\* C18: after a successful clean_data the cleaned table holds no two identical
\* rows and no negative amount.
C18_NoDuplicateNoNegative ==
    (last_call.op = "clean_data" /\ last_call.success) =>
       LET t == GetCleanedData(cleaned_data)
       IN  /\ \A i, j \in 1..Len(t.rows) : t.rows[i] = t.rows[j] => i = j
           /\ \A i \in 1..Len(t.rows) : t.rows[i].amount >= 0

\* C13: once a build_features invocation has reported failure and none has
\* succeeded since, score_customers and flag_transactions invoke neither
\* RiskScorer nor TransactionFlagger.
C13_NoScoringAfterFailedBuild ==
    (build_failed /\ last_call.op \in {"score_customers", "flag_transactions"})
    => last_call.invoked = {}

\* the flags of a controller state form a prefix of the stage order
FlagsFormPrefix(st) ==
    \A i, j \in 1..Len(StageOrder) : (i < j /\ st[StageOrder[j]]) => st[StageOrder[i]]

\* the stage flag an operation of the controller sets
StageOf(op) ==
    CASE op = "load_dataset" -> "data_loaded"
      [] op = "clean_data" -> "data_cleaned"
      [] op = "build_features" -> "features_built"
      [] op = "score_customers" -> "customers_scored"
      [] op = "flag_transactions" -> "transactions_flagged"

\* C19: in every state of MainController the stage flags form a prefix of
\* data_loaded, data_cleaned, features_built, customers_scored,
\* transactions_flagged, and right after a stage has succeeded its flag is
\* true and the flags of all later stages are false.
C19_StageFlagsFormPrefix ==
    /\ FlagsFormPrefix(state)
    /\ (last_call.op # "none" /\ last_call.success) =>
          /\ state[StageOf(last_call.op)]
          /\ \A j \in 1..Len(StageOrder) :
                j > Position(StageOf(last_call.op)) => ~state[StageOrder[j]]

\* a successful load_dataset in a controller that had flagged transactions
C19_Witness ==
    /\ last_call.op = "load_dataset"
    /\ last_call.success
    /\ flag_result.success
    /\ is_flagged_done
    /\ state.data_loaded
    /\ ~state.data_cleaned

\* C20: clean_data operates on the dataset of the last load_dataset that
\* succeeded, never on data that failed validation.
C20_CleansLastValidDataset ==
    (last_call.op = "clean_data" /\ last_call.invoked # {}) => last_call.arg = loaded_ok

\* C21: in a successful compute_risk_scores run a customer whose risk_score is
\* at least that of an anomalous customer is anomalous, and when some
\* customer is anomalous and the composite scores are not all equal every
\* customer with risk_score 100 is anomalous.
C21_AnomalyMonotoneInRiskScore ==
    ScoreOk =>
       /\ \A a, b \in Scored :
             (/\ ScoredRow(a).risk_score >= ScoredRow(b).risk_score
              /\ ScoredRow(b).is_anomaly = Fix(1))
             => ScoredRow(a).is_anomaly = Fix(1)
       /\ (/\ \E b \in Scored : ScoredRow(b).is_anomaly = Fix(1)
           /\ \E a, b \in Scored :
                 ScoredRow(a).composite_zscore # ScoredRow(b).composite_zscore)
          => \A a \in Scored :
                ScoredRow(a).risk_score = Fix(100) => ScoredRow(a).is_anomaly = Fix(1)

\* three customers with three different scores of which the upper two are
\* anomalous and the lowest is not
C21_Witness ==
    /\ ScoreOk
    /\ "nameOrig" \in risk_scores.cols
    /\ \E a, b, c \in Scored :
          /\ ScoredRow(a).risk_score = Fix(100) /\ ScoredRow(a).is_anomaly = Fix(1)
          /\ ScoredRow(b).risk_score < Fix(100) /\ ScoredRow(b).is_anomaly = Fix(1)
          /\ ScoredRow(c).risk_score < ScoredRow(b).risk_score
          /\ ScoredRow(c).is_anomaly = 0

\* the per-feature z-score columns of a scored table
FeatureZscoreCols(t) == { c \in t.cols : EndsWithZscore(c) } \ {"composite_zscore"}

\* C22: in a successful run over exactly two customers every per-feature
\* z-score is +1 or -1, both customers have composite_zscore 1, risk_score
\* 50.0 and risk_band High, neither is an anomaly under the default threshold
\* 2.0, and with the default risk_threshold 50.0 flag_transactions on their
\* risk table flags every transaction of both.
C22_TwoCustomersScoreFifty ==
    (ScoreOk /\ Len(risk_scores.rows) = 2) =>
       /\ FeatureZscoreCols(risk_scores) # {}
       /\ \A i \in Scored :
             /\ \A c \in FeatureZscoreCols(risk_scores) :
                   ScoredRow(i)[c] \in {Fix(1), -Fix(1)}
             /\ ScoredRow(i).composite_zscore = Fix(1)
             /\ ScoredRow(i).risk_score = Fix(50)
             /\ ScoredRow(i).risk_band = "High"
             /\ z_score_threshold = Fix(2) => ScoredRow(i).is_anomaly = 0
       /\ (FlagOk /\ risk_threshold = Fix(50) /\ Len(lookup.rows) = 2) =>
             \A i \in FlaggedRows : FlaggedRow(i).is_flagged

\* two customers with three transactions between them, scored and flagged
\* under the default thresholds
C22_Witness ==
    /\ ScoreOk
    /\ Len(risk_scores.rows) = 2
    /\ "nameOrig" \in risk_scores.cols
    /\ z_score_threshold = Fix(2)
    /\ risk_threshold = Fix(50)
    /\ FlagOk
    /\ Len(lookup.rows) = 2
    /\ Len(flagged_data.rows) = 3
    /\ \A i \in FlaggedRows : FlaggedRow(i).is_flagged /\ FlaggedRow(i).risk_band = "High"

\* the number of transactions of originator c in the cleaned table, all days
\* or on day d
OwnCount(c) == Cardinality({ i \in 1..Len(cleaned.rows) : cleaned.rows[i].nameOrig = c })
OwnCountOn(c, d) ==
    Cardinality({ i \in 1..Len(cleaned.rows) :
                    /\ cleaned.rows[i].nameOrig = c
                    /\ (cleaned.rows[i].step \div Scale) \div 24 = d })

\* the days the steps of the tables fall on
DaysSeen == { s \div 24 : s \in DaySteps }

RECURSIVE SumOfSquaredDayCounts(_, _)
SumOfSquaredDayCounts(c, days) ==
    IF days = {} THEN 0
    ELSE LET d == CHOOSE x \in days : TRUE
         IN  OwnCountOn(c, d) * OwnCountOn(c, d) + SumOfSquaredDayCounts(c, days \ {d})

\* C23: after compute_risk_scores on the feature table, the customer-level
\* trns_count_customer of a customer with n transactions is n*n, and its
\* daily_trns_velocity is the sum over its days of the square of the day's
\* transaction count.
C23_CountsAreSquared ==
    (score_result.called /\ "nameOrig" \in score_arg.cols) =>
       \A k \in Scored :
          LET c == ScoredRow(k).nameOrig
          IN  /\ ScoredRow(k).trns_count_customer = Fix(OwnCount(c) * OwnCount(c))
              /\ ScoredRow(k).daily_trns_velocity =
                    Fix(SumOfSquaredDayCounts(c, DaysSeen))

\* a customer with three transactions, two on one day and one on the next:
\* count 9 and velocity 4 + 1
C23_Witness ==
    /\ score_result.called
    /\ "nameOrig" \in score_arg.cols
    /\ \E k \in Scored :
          /\ OwnCount(ScoredRow(k).nameOrig) = 3
          /\ OwnCountOn(ScoredRow(k).nameOrig, 0) * OwnCountOn(ScoredRow(k).nameOrig, 1) = 2
          /\ ScoredRow(k).trns_count_customer = Fix(9)
          /\ ScoredRow(k).daily_trns_velocity = Fix(5)

\* C24: after any sequence of clean_data calls get_cleaning_stats reports the
\* counts of the most recent call only: invalid_value_count is the number of
\* negative amounts the last call zeroed, and total_issues_resolved is the
\* sum of the three counts of that call.
C24_StatsOfLastCallOnly ==
    (last_call.op = "clean_data" /\ last_call.success) =>
       LET unique == RemoveDuplicates(HandleMissingValues(last_call.arg))
           stats == GetCleaningStats
       IN  /\ stats.invalid_value_count = NegativeCount(unique)
           /\ stats.total_issues_resolved =
                 stats.missing_values_handled + stats.duplicates_removed
                 + NegativeCount(unique)
====
